---- MODULE Spec2Model ----
(***************************************************************************)
(* fastsocket: a WebSocket client (src/src/fastsocket/client.py) and       *)
(* server (src/src/fastsocket/server.py) exchanging Message envelopes      *)
(* (src/src/fastsocket/message.py).  The client is checked under           *)
(* SpecClient with its peer as the environment; the server's read loop and *)
(* dispatch under SpecServer, and its registry and send_msg under          *)
(* SpecSend, with the peers and the callers as the environment.            *)
(* SpecRegistry follows the registry with the read loops of every          *)
(* connection, SpecDecode the two read loops on frames that fail to        *)
(* decode, SpecDefaultId a client whose messages are made without a uuid.  *)
(***************************************************************************)
EXTENDS Integers, Sequences, FiniteSets, TLC

\* ------------------------------------------------------------------ bounds
\* number of caller tasks that each issue one Client.send_msg
NSenders == 2
\* number of frames the peer sends to the client
MaxFrames == 2
\* number of handler registrations on the client
MaxClientRegs == 1
\* number of connections the server accepts
NConns == 2
\* number of frames the peers send to the server
MaxSrvFrames == 2
\* number of handler registrations on the server
MaxSrvRegs == 2
\* number of Server.send_msg calls
MaxSendCalls == 1

Senders == 1 .. NSenders
Ids == {1, 2}
Codes == {"PING", "PONG", "ALL"}
Handlers == {"h1", "h2"}
Conns == 1 .. NConns
Keys == {"a", "b"}
\* the paths Server.send_msg is called with: the keys, a path no connection
\* has, and "-" for None
Paths == Keys \cup {"x", "-"}
\* the connections whose frames SpecServer follows
DispatchConns == {1}

\* ----------------------------------------------------------------- message
\* Message.__init__: the default of the uuid parameter is evaluated once, when
\* the class body is executed; every construction that omits uuid gets it.
DefaultUuid == 1

NoMsg == [uuid |-> 0, code |-> "-"]

\* Message(code, **kw): the uuid given, or the default
Message_init(code, kw) ==
    [uuid |-> IF "uuid" \in DOMAIN kw THEN kw.uuid ELSE DefaultUuid, code |-> code]

\* the keyword arguments of a construction that gives no uuid
NoUuidGiven == [data |-> "{}"]

\* A frame on the wire: `json` is whether the text parses as a JSON object,
\* `keys` the keys of that object.
GoodKeys == {"uuid", "code", "data"}

MkFrame(i, c) == [json |-> TRUE, keys |-> GoodKeys, uuid |-> i, code |-> c]

Garbage == [json |-> FALSE, keys |-> {}, uuid |-> 0, code |-> "-"]

\* Message.from_json: cls(**json.loads(string)).  json.loads raises on text
\* that is not JSON; the call raises TypeError on a key that is no parameter
\* of __init__ and on a missing `code`; a missing uuid takes the default.
from_json(frame) ==
    IF ~frame.json THEN [exc |-> "JSONDecodeError", msg |-> NoMsg]
    ELSE IF ~(frame.keys \subseteq GoodKeys) \/ "code" \notin frame.keys
         THEN [exc |-> "TypeError", msg |-> NoMsg]
    ELSE [exc |-> "",
          msg |-> [uuid |-> IF "uuid" \in frame.keys THEN frame.uuid ELSE DefaultUuid,
                   code |-> frame.code]]

\* the frames a peer sends in the model
ServerPeerFrames == {MkFrame(1, "PING"), MkFrame(1, "ALL"), Garbage}

RegistryPeerFrames == {MkFrame(1, "PING"), Garbage}

\* a JSON object without "code", and one with a key __init__ does not take
NoCodeFrame == [json |-> TRUE, keys |-> {"uuid", "data"}, uuid |-> 1, code |-> "-"]
ExtraKeyFrame == [json |-> TRUE, keys |-> GoodKeys \cup {"extra"}, uuid |-> 1, code |-> "PING"]

DecodePeerFrames == {MkFrame(1, "PING"), Garbage, NoCodeFrame, ExtraKeyFrame}

ClientPeerFrames ==
    {MkFrame(i, "PING") : i \in Ids} \cup {Garbage}

\* --------------------------------------------------------------- variables
VARIABLES
    \* Client
    websocket,          \* Client._websocket: "None", or the connection's state
    registed_callbacks, \* Client._registed_callbacks: code -> list of handlers
    response_futures,   \* Client._response_futures: uuid -> the future (named by
                        \* the send that created it), 0 when the key is absent
    future,             \* the future each blocking send created: its result
    reader,             \* the task running Client._message_handler
    c_inbox,            \* frames sent by the peer, not yet received
    c_sent,             \* frames handed to the transport, by sender
    call,               \* each caller's Client.send_msg call
    c_last,             \* what _process_message did with the last frame received
    seen,               \* per send: the first message with its uuid that was received
                        \* while it was waiting with its future in the table
    closedWaiting,      \* per send: the connection closed while it was waiting
    peerFrames,         \* number of frames the peer has sent
    \* Server
    srv_callbacks,      \* Server._registed_callbacks: code -> list of handlers
    connections,        \* Server._connections: key -> connection, 0 when absent
    conn,               \* each connection: its handler task, its path, its state
    disp,               \* per connection, the dispatches made: the handler tasks
    sendcall,           \* the Server.send_msg call in progress, or the last one
    srvFrames,          \* number of frames the peers have sent
    sendCalls           \* number of Server.send_msg calls made

cvars == <<websocket, registed_callbacks, response_futures, future, reader,
           c_inbox, c_sent, call, c_last, seen, closedWaiting, peerFrames>>

svars == <<srv_callbacks, connections, conn, disp, sendcall, srvFrames, sendCalls>>

vars == <<cvars, svars>>

\* ------------------------------------------------------------------ client
\* the attributes Client.__init__ assigns
ClientAttrs == {"_url", "_registed_callbacks", "_logger", "_websocket", "_response_futures"}

\* a call of Client.send_msg: where it is, its arguments, how it ended, and
\* `after`, the calls that had ended when it was made
NoCall == [pc |-> "idle", uuid |-> 0, blocking |-> FALSE, kind |-> "-", exc |-> "",
           ret |-> NoMsg, after |-> {}]

\* dict.get(code, [])
Get(table, code) == IF code \in DOMAIN table THEN table[code] ELSE <<>>

\* the handlers the two nested loops of _dispatch_message visit, in order:
\* for code in (msg.code, "ALL"): for func in table.get(code, [])
MatchedHandlers(table, code) == Get(table, code) \o Get(table, "ALL")

RECURSIVE NumRegsOver(_, _)
NumRegsOver(table, S) ==
    IF S = {} THEN 0
    ELSE LET k == CHOOSE k \in S : TRUE
         IN Len(table[k]) + NumRegsOver(table, S \ {k})

NumRegs(table) == NumRegsOver(table, DOMAIN table)

\* if code not in table: table[code] = []; table[code].append(func)
Register(table, code, func) == [table EXCEPT ![code] = Append(@, func)]

\* what the read loop did with the last frame (the n-th), and `dropped`, the
\* numbers of the frames that failed to decode
NoFrameYet == [n |-> 0, decoded |-> FALSE, msg |-> NoMsg, exc |-> "", invoked |-> <<>>,
               lookup |-> FALSE, dropped |-> {}]

ClientInit ==
    /\ websocket = "None"
    /\ registed_callbacks = [c \in Codes |-> <<>>]
    /\ response_futures = [i \in Ids |-> 0]
    /\ future = [s \in Senders |-> NoMsg]
    /\ reader = "not_started"
    /\ c_inbox = <<>>
    /\ c_sent = [s \in Senders |-> 0]
    /\ call = [s \in Senders |-> NoCall]
    /\ c_last = NoFrameYet
    /\ seen = [s \in Senders |-> NoMsg]
    /\ closedWaiting = [s \in Senders |-> FALSE]
    /\ peerFrames = 0

\* Client.on_message(code, func)
Client_on_message(code, func) ==
    /\ NumRegs(registed_callbacks) < MaxClientRegs
    /\ registed_callbacks' = Register(registed_callbacks, code, func)
    /\ UNCHANGED <<websocket, response_futures, future, reader, c_inbox, c_sent,
                   call, c_last, seen, closedWaiting, peerFrames, svars>>

\* Client.on(code) applied to func
Client_on(code, func) ==
    /\ NumRegs(registed_callbacks) < MaxClientRegs
    /\ registed_callbacks' = Register(registed_callbacks, code, func)
    /\ UNCHANGED <<websocket, response_futures, future, reader, c_inbox, c_sent,
                   call, c_last, seen, closedWaiting, peerFrames, svars>>

\* Client.connect: the connection is opened and _message_handler is started
Client_connect ==
    /\ websocket = "None"
    /\ websocket' = "open"
    /\ reader' = "running"
    /\ UNCHANGED <<registed_callbacks, response_futures, future, c_inbox, c_sent,
                   call, c_last, seen, closedWaiting, peerFrames, svars>>

\* the sends waiting on a future without a result when the connection closes
WaitingNow == {s \in Senders : call[s].pc = "waiting" /\ future[s] = NoMsg}

\* Client.disconnect: closes the connection; nothing else is touched
Client_disconnect ==
    /\ websocket = "open"
    /\ websocket' = "closed"
    /\ closedWaiting' = [s \in Senders |-> closedWaiting[s] \/ s \in WaitingNow]
    /\ UNCHANGED <<registed_callbacks, response_futures, future, reader, c_inbox,
                   c_sent, call, c_last, seen, peerFrames, svars>>

\* the peer disconnects, or the network fails
PeerClose ==
    /\ websocket = "open"
    /\ websocket' = "closed"
    /\ closedWaiting' = [s \in Senders |-> closedWaiting[s] \/ s \in WaitingNow]
    /\ UNCHANGED <<registed_callbacks, response_futures, future, reader, c_inbox,
                   c_sent, call, c_last, seen, peerFrames, svars>>

\* the peer sends a frame
PeerSend(frame) ==
    /\ websocket = "open"
    /\ peerFrames < MaxFrames
    /\ peerFrames' = peerFrames + 1
    /\ c_inbox' = Append(c_inbox, frame)
    /\ UNCHANGED <<websocket, registed_callbacks, response_futures, future, reader,
                   c_sent, call, c_last, seen, closedWaiting, svars>>

\* Client._dispatch_message(msg): the handlers are looked up in self._events,
\* which raises AttributeError when the object has no such attribute
\* (on_message and on fill _registed_callbacks).  `exc` is the exception that
\* leaves the call, `invoked` the handlers called.
Client_dispatch_message(msg) ==
    IF "_events" \notin ClientAttrs
    THEN [exc |-> "AttributeError", invoked |-> <<>>]
    ELSE [exc |-> "", invoked |-> MatchedHandlers(registed_callbacks, msg.code)]

\* the body of the try of Client._process_message, for one received frame:
\* what is logged, and the futures afterwards
Client_process_message(frame) ==
    LET d == from_json(frame)
        r == Client_dispatch_message(d.msg)
        slot == IF d.exc = "" THEN response_futures[d.msg.uuid] ELSE 0
    IN  IF d.exc # ""
        THEN [decoded |-> FALSE, msg |-> NoMsg, exc |-> d.exc, invoked |-> <<>>,
              lookup |-> FALSE, futures |-> future]
        ELSE IF r.exc # ""
        THEN [decoded |-> TRUE, msg |-> d.msg, exc |-> r.exc, invoked |-> r.invoked,
              lookup |-> FALSE, futures |-> future]
        ELSE IF slot = 0
        THEN [decoded |-> TRUE, msg |-> d.msg, exc |-> "", invoked |-> r.invoked,
              lookup |-> TRUE, futures |-> future]
        ELSE IF future[slot] # NoMsg
        THEN [decoded |-> TRUE, msg |-> d.msg, exc |-> "InvalidStateError",
              invoked |-> r.invoked, lookup |-> TRUE, futures |-> future]
        ELSE [decoded |-> TRUE, msg |-> d.msg, exc |-> "", invoked |-> r.invoked,
              lookup |-> TRUE, futures |-> [future EXCEPT ![slot] = d.msg]]

\* Client._message_handler: one iteration of `async for message in websocket`
Client_message_handler ==
    /\ reader = "running"
    /\ c_inbox # <<>>
    /\ LET p == Client_process_message(Head(c_inbox))
       IN  /\ future' = p.futures
           /\ c_last' = [n |-> c_last.n + 1, decoded |-> p.decoded, msg |-> p.msg,
                         exc |-> p.exc, invoked |-> p.invoked, lookup |-> p.lookup,
                         dropped |-> IF p.decoded THEN c_last.dropped
                                     ELSE c_last.dropped \cup {c_last.n + 1}]
           /\ seen' = [s \in Senders |->
                         IF p.decoded /\ s \in WaitingNow /\ call[s].uuid = p.msg.uuid
                            /\ response_futures[p.msg.uuid] = s /\ seen[s] = NoMsg
                         THEN p.msg ELSE seen[s]]
    /\ c_inbox' = Tail(c_inbox)
    /\ UNCHANGED <<websocket, registed_callbacks, response_futures, reader, c_sent,
                   call, closedWaiting, peerFrames, svars>>

\* Client._message_handler: the iteration ends when the connection is closed
Client_message_handler_exit ==
    /\ reader = "running"
    /\ websocket = "closed"
    /\ c_inbox = <<>>
    /\ reader' = "finished"
    /\ UNCHANGED <<websocket, registed_callbacks, response_futures, future, c_inbox,
                   c_sent, call, c_last, seen, closedWaiting, peerFrames, svars>>

Raise(c, e) == [c EXCEPT !.pc = "done", !.kind = "raise", !.exc = e]
Return(c, m) == [c EXCEPT !.pc = "done", !.kind = "return", !.ret = m]

\* Client.send_msg, up to `await self._websocket.send(...)`
Client_send_msg(s, id, blocking) ==
    /\ call[s].pc = "idle"
    /\ \A t \in Senders : t < s => call[t].pc # "idle"   \* callers numbered in call order
    /\ LET c == [call[s] EXCEPT !.uuid = id, !.blocking = blocking,
                                !.after = {t \in Senders : call[t].pc = "done"}]
       IN  IF websocket = "None"
           THEN \* logged as critical; then None has no attribute send
                /\ call' = [call EXCEPT ![s] = Raise(c, "AttributeError")]
                /\ UNCHANGED c_sent
           ELSE IF websocket = "closed"
           THEN /\ call' = [call EXCEPT ![s] = Raise(c, "ConnectionClosed")]
                /\ UNCHANGED c_sent
           ELSE /\ call' = [call EXCEPT ![s] = [c EXCEPT !.pc = "sent"]]
                /\ c_sent' = [c_sent EXCEPT ![s] = @ + 1]
    /\ UNCHANGED <<websocket, registed_callbacks, response_futures, future, reader,
                   c_inbox, c_last, seen, closedWaiting, peerFrames, svars>>

\* Client.send_msg, after the transport's send: return None, or create the
\* future and store it under msg.uuid
Client_send_msg_sent(s) ==
    /\ call[s].pc = "sent"
    /\ IF call[s].blocking
       THEN /\ response_futures' = [response_futures EXCEPT ![call[s].uuid] = s]
            /\ call' = [call EXCEPT ![s].pc = "waiting"]
       ELSE /\ call' = [call EXCEPT ![s] = Return(@, NoMsg)]
            /\ UNCHANGED response_futures
    /\ UNCHANGED <<websocket, registed_callbacks, future, reader, c_inbox, c_sent,
                   c_last, seen, closedWaiting, peerFrames, svars>>

\* a finally clause that leaves the table as it is
PopKept(table, key) == table

\* self._response_futures.pop(key, None)
Pop(table, key) == [table EXCEPT ![key] = 0]

\* Client.send_msg: asyncio.wait_for ends, with the future's result or by the
\* timeout; the finally clause pops msg.uuid
Client_send_msg_wait_for(s) ==
    /\ call[s].pc = "waiting"
    /\ response_futures' = Pop(response_futures, call[s].uuid)
    /\ call' = [call EXCEPT ![s] = Return(@, future[s])]
    /\ UNCHANGED <<websocket, registed_callbacks, future, reader, c_inbox, c_sent,
                   c_last, seen, closedWaiting, peerFrames, svars>>

\* the task calling Client.send_msg is cancelled while it waits
Client_send_msg_cancelled(s) ==
    /\ call[s].pc = "waiting"
    /\ response_futures' = Pop(response_futures, call[s].uuid)
    /\ call' = [call EXCEPT ![s] = Raise(@, "CancelledError")]
    /\ UNCHANGED <<websocket, registed_callbacks, future, reader, c_inbox, c_sent,
                   c_last, seen, closedWaiting, peerFrames, svars>>

ClientNext ==
    \/ \E c \in Codes, h \in Handlers : Client_on_message(c, h)
    \/ \E c \in Codes, h \in Handlers : Client_on(c, h)
    \/ Client_connect
    \/ Client_disconnect
    \/ PeerClose
    \/ \E f \in ClientPeerFrames : PeerSend(f)
    \/ Client_message_handler
    \/ Client_message_handler_exit
    \/ \E s \in Senders, i \in Ids, b \in BOOLEAN : Client_send_msg(s, i, b)
    \/ \E s \in Senders : Client_send_msg_sent(s)
    \/ \E s \in Senders : Client_send_msg_wait_for(s)
    \/ \E s \in Senders : Client_send_msg_cancelled(s)

\* ------------------------------------------------------------------ server
\* a connection: its handler task (`pc`, and `exc`, the last exception logged
\* or leaving it), its path, its transport (`ws`), the frames not yet received,
\* `prev`, the open connection that held its key when it connected, the
\* number of frames received and `dropped`, which of them failed to decode
NoConn == [pc |-> "none", path |-> "-", ws |-> "none", inbox |-> <<>>, exc |-> "",
           prev |-> 0, n |-> 0, dropped |-> {}]

NoSend == [pc |-> "idle", path |-> "-", targets |-> <<>>, st |-> <<>>, kind |-> "-",
           exc |-> "", warned |-> FALSE]

\* a task's coroutine has finished, by returning or by raising
Finished(st) == st \in {"done", "failed"}

\* the tasks asyncio.gather wraps its arguments in take their first step in
\* the order they were passed, before the gather's own callbacks run
MayStart(sts, i) == sts[i] = "scheduled" /\ \A j \in 1 .. (i - 1) : sts[j] # "scheduled"

\* `await asyncio.gather(*tasks)` ends: with the first exception as soon as a
\* task has raised, with the results once every task has returned
GatherEnds(sts) ==
    /\ \A i \in DOMAIN sts : sts[i] # "scheduled"
    /\ \/ \E i \in DOMAIN sts : sts[i] = "failed"
       \/ \A i \in DOMAIN sts : sts[i] = "done"

GatherRaises(sts) == \E i \in DOMAIN sts : sts[i] = "failed"

ServerInit ==
    /\ srv_callbacks = [c \in Codes |-> <<>>]
    /\ connections = [k \in Keys |-> 0]
    /\ conn = [c \in Conns |-> NoConn]
    /\ disp = [c \in Conns |-> <<>>]
    /\ sendcall = NoSend
    /\ srvFrames = 0
    /\ sendCalls = 0

\* the handlers are named in the order in which they are first registered
Registered(table) == {h \in Handlers : \E c \in DOMAIN table, i \in 1 .. MaxSrvRegs :
                                          i <= Len(table[c]) /\ table[c][i] = h}

FirstUse(table, func) == func = "h1" \/ "h1" \in Registered(table)

\* Server.on_message(code, func)
Server_on_message(code, func) ==
    /\ NumRegs(srv_callbacks) < MaxSrvRegs
    /\ FirstUse(srv_callbacks, func)
    /\ srv_callbacks' = Register(srv_callbacks, code, func)
    /\ UNCHANGED <<connections, conn, disp, sendcall, srvFrames,
                   sendCalls, cvars>>

\* Server.on(code) applied to func
Server_on(code, func) ==
    /\ NumRegs(srv_callbacks) < MaxSrvRegs
    /\ FirstUse(srv_callbacks, func)
    /\ srv_callbacks' = Register(srv_callbacks, code, func)
    /\ UNCHANGED <<connections, conn, disp, sendcall, srvFrames,
                   sendCalls, cvars>>

\* Server._handle_connection(ws, path), up to the first `async for` step:
\* the connection is stored under path[1:]
Server_handle_connection(c, k) ==
    /\ conn[c].pc = "none"
    /\ \A b \in Conns : b < c => conn[b].pc # "none"   \* numbered in connect order
    /\ connections' = [connections EXCEPT ![k] = c]
    /\ conn' = [conn EXCEPT ![c] = [NoConn EXCEPT !.pc = "iter", !.path = k, !.ws = "open",
                                                  !.prev = IF connections[k] # 0
                                                              /\ conn[connections[k]].ws = "open"
                                                           THEN connections[k] ELSE 0]]
    /\ UNCHANGED <<srv_callbacks, disp, sendcall, srvFrames, sendCalls, cvars>>

\* a peer sends a frame on its connection
ServerPeerSend(c, frame) ==
    /\ conn[c].ws = "open"
    /\ srvFrames < MaxSrvFrames
    /\ srvFrames' = srvFrames + 1
    /\ conn' = [conn EXCEPT ![c].inbox = Append(@, frame)]
    /\ UNCHANGED <<srv_callbacks, connections, disp, sendcall,
                   sendCalls, cvars>>

\* a peer disconnects ("closed"), or the connection fails ("aborted")
ServerPeerClose(c, how) ==
    /\ conn[c].ws = "open"
    /\ conn' = [conn EXCEPT ![c].ws = how]
    /\ UNCHANGED <<srv_callbacks, connections, disp, sendcall,
                   srvFrames, sendCalls, cvars>>

\* Server._dispatch_message(msg, ws), up to the gather: every matched handler
\* is called, which makes its coroutine
Server_dispatch_message(msg, n) ==
    LET hs == MatchedHandlers(srv_callbacks, msg.code)
    IN  [msg |-> msg, frame |-> n, handlers |-> hs,
         st |-> [i \in 1 .. Len(hs) |-> "scheduled"], over |-> hs = <<>>, exc |-> ""]

\* a read loop whose decode failure leaves _handle_connection
Server_process_message_unguarded(c) ==
    /\ conn[c].pc = "iter"
    /\ conn[c].inbox # <<>>
    /\ LET d == from_json(Head(conn[c].inbox))
           t == Server_dispatch_message(d.msg, conn[c].n + 1)
       IN  IF d.exc # ""
           THEN /\ conn' = [conn EXCEPT ![c].inbox = Tail(@), ![c].exc = d.exc,
                                        ![c].n = @ + 1, ![c].dropped = @ \cup {conn[c].n + 1},
                                        ![c].pc = "exited"]
                /\ UNCHANGED disp
           ELSE /\ disp' = [disp EXCEPT ![c] = Append(@, t)]
                /\ conn' = [conn EXCEPT ![c].inbox = Tail(@), ![c].n = @ + 1,
                                        ![c].pc = IF t.over THEN "iter" ELSE "dispatch"]
    /\ UNCHANGED <<srv_callbacks, connections, sendcall, srvFrames, sendCalls,
                   cvars>>

\* Server._process_message(ws, message), up to the await of the gather
Server_process_message(c) ==
    /\ conn[c].pc = "iter"
    /\ conn[c].inbox # <<>>
    /\ LET d == from_json(Head(conn[c].inbox))
           t == Server_dispatch_message(d.msg, conn[c].n + 1)
       IN  IF d.exc # ""
           THEN \* logged as an error
                /\ conn' = [conn EXCEPT ![c].inbox = Tail(@), ![c].exc = d.exc,
                                        ![c].n = @ + 1, ![c].dropped = @ \cup {conn[c].n + 1}]
                /\ UNCHANGED disp
           ELSE /\ disp' = [disp EXCEPT ![c] = Append(@, t)]
                /\ conn' = [conn EXCEPT ![c].inbox = Tail(@), ![c].n = @ + 1,
                                        ![c].pc = IF t.over THEN "iter" ELSE "dispatch"]
    /\ UNCHANGED <<srv_callbacks, connections, sendcall, srvFrames, sendCalls,
                   cvars>>

\* a handler's task takes its first step: the handler runs to its first
\* suspension ("running"), to its end ("done") or to an exception ("failed")
HandlerStart(c, n, i, to) ==
    /\ n \in DOMAIN disp[c]
    /\ i \in DOMAIN disp[c][n].st
    /\ MayStart(disp[c][n].st, i)
    /\ disp' = [disp EXCEPT ![c][n].st[i] = to]
    /\ UNCHANGED <<srv_callbacks, connections, conn, sendcall,
                   srvFrames, sendCalls, cvars>>

\* a suspended handler resumes and returns ("done") or raises ("failed")
HandlerFinish(c, n, i, to) ==
    /\ n \in DOMAIN disp[c]
    /\ i \in DOMAIN disp[c][n].st
    /\ disp[c][n].st[i] = "running"
    /\ disp' = [disp EXCEPT ![c][n].st[i] = to]
    /\ UNCHANGED <<srv_callbacks, connections, conn, sendcall,
                   srvFrames, sendCalls, cvars>>

\* Server._dispatch_message: the gather ends; Server._process_message logs
\* the exception if there is one, and the connection's loop goes on
Server_dispatch_message_gathered(c) ==
    /\ conn[c].pc = "dispatch"
    /\ LET n == Len(disp[c])
           sts == disp[c][n].st
       IN  /\ GatherEnds(sts)
           /\ disp' = [disp EXCEPT ![c][n].over = TRUE,
                                   ![c][n].exc = IF GatherRaises(sts) THEN "HandlerError" ELSE ""]
    /\ conn' = [conn EXCEPT ![c].pc = "iter"]
    /\ UNCHANGED <<srv_callbacks, connections, sendcall, srvFrames, sendCalls,
                   cvars>>

\* a finally clause that leaves the registry as it is
DelKeyKept(table, key) == table

\* del self._connections[key], for a key that is present
DelKey(table, key) == [table EXCEPT ![key] = 0]

\* Server._handle_connection: the iteration ends when the connection is
\* closed, by returning or, after a failure, by raising ConnectionClosedError;
\* the finally clause deletes path[1:] from the registry, which raises
\* KeyError when the key is not there
Server_handle_connection_exit(c) ==
    /\ conn[c].pc = "iter"
    /\ conn[c].ws \in {"closed", "aborted"}
    /\ conn[c].inbox = <<>>
    /\ IF connections[conn[c].path] = 0
       THEN /\ conn' = [conn EXCEPT ![c].pc = "exited", ![c].exc = "KeyError"]
            /\ UNCHANGED connections
       ELSE /\ conn' = [conn EXCEPT ![c].pc = "exited",
                                    ![c].exc = IF conn[c].ws = "aborted"
                                               THEN "ConnectionClosedError" ELSE @]
            /\ connections' = DelKey(connections, conn[c].path)
    /\ UNCHANGED <<srv_callbacks, disp, sendcall, srvFrames, sendCalls, cvars>>

RECURSIVE SetToSeq(_)
SetToSeq(S) == IF S = {} THEN <<>>
               ELSE LET x == CHOOSE x \in S : \A y \in S : x <= y
                    IN <<x>> \o SetToSeq(S \ {x})

\* self._connections.values()
ConnectionsValues == SetToSeq({connections[k] : k \in Keys} \ {0})

\* KnownPath without the look at the registry: any well-formed key passes
KnownPathAnyKey(path) == path \in Keys

\* `path in self._connections`
KnownPath(path) == path \in Keys /\ connections[path] # 0

\* the connections Server.send_msg sends to
SendTargets(path) ==
    IF path = "-" THEN ConnectionsValues
    ELSE IF KnownPath(path) THEN <<connections[path]>>
    ELSE <<>>

\* Server.send_msg(msg, path), up to its await.  path "-" stands for None.
Server_send_msg(path) ==
    /\ sendcall.pc \in {"idle", "done"}
    /\ sendCalls < MaxSendCalls
    /\ sendCalls' = sendCalls + 1
    /\ LET targets == SendTargets(path)
           known == path = "-" \/ KnownPath(path)
           c == [NoSend EXCEPT !.path = path, !.targets = targets,
                               !.st = [i \in 1 .. Len(targets) |-> "scheduled"]]
       IN  IF ~known
           THEN /\ sendcall' = [c EXCEPT !.pc = "done", !.kind = "return", !.warned = TRUE]
           ELSE IF targets = <<>>
           THEN /\ sendcall' = [c EXCEPT !.pc = "done", !.kind = "return"]
           ELSE /\ sendcall' = [c EXCEPT !.pc = "sending"]
    /\ UNCHANGED <<srv_callbacks, connections, conn, disp, srvFrames, cvars>>

\* ws.send(...) takes its first step: it raises on a closed connection;
\* otherwise it writes the frame, and returns or waits for the transport to
\* drain
WsSendStart(i, drains) ==
    /\ sendcall.pc \in {"sending", "done"}
    /\ i \in DOMAIN sendcall.st
    /\ MayStart(sendcall.st, i)
    /\ LET t == sendcall.targets[i]
       IN  IF conn[t].ws # "open"
           THEN sendcall' = [sendcall EXCEPT !.st[i] = "failed"]
           ELSE sendcall' = [sendcall EXCEPT !.st[i] = IF drains THEN "running" ELSE "done"]
    /\ UNCHANGED <<srv_callbacks, connections, conn, disp, srvFrames,
                   sendCalls, cvars>>

\* a ws.send(...) waiting for the transport to drain ends: it returns, or it
\* raises when the connection was closed meanwhile
WsSendFinish(i) ==
    /\ i \in DOMAIN sendcall.st
    /\ sendcall.st[i] = "running"
    /\ sendcall' = [sendcall EXCEPT !.st[i] = IF conn[sendcall.targets[i]].ws = "open"
                                              THEN "done" ELSE "failed"]
    /\ UNCHANGED <<srv_callbacks, connections, conn, disp, srvFrames,
                   sendCalls, cvars>>

\* Server.send_msg: its await ends, and the call returns None or raises
Server_send_msg_awaited ==
    /\ sendcall.pc = "sending"
    /\ GatherEnds(sendcall.st)
    /\ sendcall' = IF GatherRaises(sendcall.st)
                   THEN [sendcall EXCEPT !.pc = "done", !.kind = "raise",
                                         !.exc = "ConnectionClosed"]
                   ELSE [sendcall EXCEPT !.pc = "done", !.kind = "return"]
    /\ UNCHANGED <<srv_callbacks, connections, conn, disp, srvFrames,
                   sendCalls, cvars>>

ServerNext ==
    \/ \E c \in Codes, h \in Handlers : Server_on_message(c, h)
    \/ \E c \in Codes, h \in Handlers : Server_on(c, h)
    \/ \E c \in DispatchConns, k \in Keys : Server_handle_connection(c, k)
    \/ \E c \in DispatchConns, f \in ServerPeerFrames : ServerPeerSend(c, f)
    \/ \E c \in DispatchConns, how \in {"closed", "aborted"} : ServerPeerClose(c, how)
    \/ \E c \in DispatchConns : Server_process_message(c)
    \/ \E c \in DispatchConns, n \in 1 .. MaxSrvFrames, i \in 1 .. (2 * MaxSrvRegs),
          to \in {"running", "done", "failed"} : HandlerStart(c, n, i, to)
    \/ \E c \in DispatchConns, n \in 1 .. MaxSrvFrames, i \in 1 .. (2 * MaxSrvRegs),
          to \in {"done", "failed"} : HandlerFinish(c, n, i, to)
    \/ \E c \in DispatchConns : Server_dispatch_message_gathered(c)
    \/ \E c \in DispatchConns : Server_handle_connection_exit(c)

\* the server's connections coming and going, and the callers of send_msg
SendNext ==
    \/ \E c \in Conns, k \in Keys : Server_handle_connection(c, k)
    \/ \E c \in Conns, how \in {"closed", "aborted"} : ServerPeerClose(c, how)
    \/ \E c \in Conns : Server_handle_connection_exit(c)
    \/ \E p \in Paths : Server_send_msg(p)
    \/ \E i \in Conns, d \in BOOLEAN : WsSendStart(i, d)
    \/ \E i \in Conns : WsSendFinish(i)
    \/ Server_send_msg_awaited

\* the server's registry with every connection's read loop, for an
\* application that registers its handlers under "ALL"
RegistryNext ==
    \/ Server_on_message("ALL", "h1")
    \/ \E c \in Conns, k \in Keys : Server_handle_connection(c, k)
    \/ \E c \in Conns, f \in RegistryPeerFrames : ServerPeerSend(c, f)
    \/ \E c \in Conns, how \in {"closed", "aborted"} : ServerPeerClose(c, how)
    \/ \E c \in Conns : Server_process_message(c)
    \/ \E c \in Conns, n \in 1 .. MaxSrvFrames, i \in 1 .. MaxSrvRegs,
          to \in {"running", "done", "failed"} : HandlerStart(c, n, i, to)
    \/ \E c \in Conns, n \in 1 .. MaxSrvFrames, i \in 1 .. MaxSrvRegs,
          to \in {"done", "failed"} : HandlerFinish(c, n, i, to)
    \/ \E c \in Conns : Server_dispatch_message_gathered(c)
    \/ \E c \in Conns : Server_handle_connection_exit(c)

\* one client and one server connection, each reading the frames of its
\* peer, with one handler registered and one blocking send waiting
DecodeNext ==
    \/ Client_on_message("ALL", "h1")
    \/ Client_connect
    \/ \E f \in DecodePeerFrames : PeerSend(f)
    \/ Client_message_handler
    \/ Client_send_msg(1, 1, TRUE)
    \/ Client_send_msg_sent(1)
    \/ Client_send_msg_wait_for(1)
    \/ Server_on_message("ALL", "h1")
    \/ Server_handle_connection(1, "a")
    \/ \E f \in DecodePeerFrames : ServerPeerSend(1, f)
    \/ Server_process_message(1)
    \/ \E n \in 1 .. MaxSrvFrames, i \in 1 .. MaxSrvRegs,
          to \in {"done", "failed"} : HandlerStart(1, n, i, to)
    \/ Server_dispatch_message_gathered(1)

\* a client whose callers send Message(code) objects, made without a uuid,
\* and wait for the replies
DefaultIdNext ==
    \/ Client_connect
    \/ \E f \in ClientPeerFrames : PeerSend(f)
    \/ Client_message_handler
    \/ \E s \in Senders : Client_send_msg(s, Message_init("PING", NoUuidGiven).uuid, TRUE)
    \/ \E s \in Senders : Client_send_msg_sent(s)
    \/ \E s \in Senders : Client_send_msg_wait_for(s)
    \/ \E s \in Senders : Client_send_msg_cancelled(s)

Init == ClientInit /\ ServerInit

SpecClient == Init /\ [][ClientNext]_vars

SpecServer == Init /\ [][ServerNext]_vars

SpecSend == Init /\ [][SendNext]_vars

SpecRegistry == Init /\ [][RegistryNext]_vars

SpecDecode == Init /\ [][DecodeNext]_vars

SpecDefaultId == Init /\ [][DefaultIdNext]_vars

\* ------------------------------------------------------------------ claims
\* a call of Client.send_msg has ended
Done(s) == call[s].pc = "done"

\* the timed-out outcome of a blocking send: it returned None
ReturnedNone(s) == Done(s) /\ call[s].kind = "return" /\ call[s].ret = NoMsg

Cancelled(s) == Done(s) /\ call[s].exc = "CancelledError"

\* C1: a blocking send returns the reply carrying its id that the read loop
\* received while the send was waiting, and not the timed-out outcome
C1_BlockingSendReturnsReply ==
    \A s \in Senders :
        (Done(s) /\ call[s].blocking /\ ~Cancelled(s) /\ seen[s] # NoMsg)
            => (call[s].kind = "return" /\ call[s].ret = seen[s])

\* C2: for every frame the client decodes, the lookup of its id among the
\* pending waits is made and the handlers registered for its code and for
\* "ALL" are invoked
C2_LookupAndHandlers ==
    [][(c_last'.n # c_last.n /\ c_last'.decoded)
        => /\ c_last'.lookup
           /\ Len(c_last'.invoked)
                = Len(registed_callbacks[c_last'.msg.code]) + Len(registed_callbacks["ALL"])]_vars

\* number of times func was invoked
InvokedCount(func, invoked) == Cardinality({i \in DOMAIN invoked : invoked[i] = func})

\* number of registrations of func under the message's code or under "ALL"
MatchingRegs(func, table, code) ==
    Cardinality({<<c, i>> \in {code, "ALL"} \X (1 .. NumRegs(table)) :
                    i <= Len(table[c]) /\ table[c][i] = func})

\* the server dispatches a message in this step
ServerDispatches(c) == Len(disp'[c]) = Len(disp[c]) + 1

\* C3 on the server alone: one dispatch invokes every registration under the
\* message's code and under "ALL" once, and no other
C3_ServerInvokesEachOnce ==
    [][\A c \in Conns : ServerDispatches(c) =>
          LET r == disp'[c][Len(disp'[c])]
          IN  \A h \in Handlers :
                InvokedCount(h, r.handlers) = MatchingRegs(h, srv_callbacks, r.msg.code)]_vars

\* C3 on the server alone, for the messages whose code is not "ALL"
C3_ServerInvokesEachOnceOtherCodes ==
    [][\A c \in Conns : (ServerDispatches(c) /\ disp'[c][Len(disp'[c])].msg.code # "ALL") =>
          LET r == disp'[c][Len(disp'[c])]
          IN  \A h \in Handlers :
                InvokedCount(h, r.handlers) = MatchingRegs(h, srv_callbacks, r.msg.code)]_vars

\* C3: one dispatch invokes every registration under the message's code and
\* under "ALL" once, and no other, on the server and on the client
C3_InvokesEachOnce ==
    [][/\ \A c \in Conns : ServerDispatches(c) =>
             LET r == disp'[c][Len(disp'[c])]
             IN  \A h \in Handlers :
                   InvokedCount(h, r.handlers) = MatchingRegs(h, srv_callbacks, r.msg.code)
       /\ (c_last'.n # c_last.n /\ c_last'.decoded) =>
             \A h \in Handlers :
                InvokedCount(h, c_last'.invoked)
                    = MatchingRegs(h, registed_callbacks, c_last'.msg.code)]_vars

\* C4: when a handler of a message raised, every other handler of that
\* message has run to its end by the time the message's dispatch is over
C4_SiblingsFinishInDispatch ==
    \A c \in Conns : \A n \in DOMAIN disp[c] :
        (disp[c][n].over /\ disp[c][n].exc # "")
            => \A i \in DOMAIN disp[c][n].st : Finished(disp[c][n].st[i])

\* C5: no handler of a later message of a connection has started while a
\* handler of an earlier message of that connection has not finished
C5_SequentialPerConnection ==
    \A c \in Conns : \A n \in DOMAIN disp[c], m \in DOMAIN disp[c] :
        (n < m /\ \E j \in DOMAIN disp[c][m].st : disp[c][m].st[j] # "scheduled")
            => \A i \in DOMAIN disp[c][n].st : Finished(disp[c][n].st[i])

\* C6: a blocking send that was waiting when the connection closed ends with
\* an outcome other than the timed-out one
C6_ClosedWhileWaiting ==
    \A s \in Senders :
        (Done(s) /\ closedWaiting[s] /\ ~Cancelled(s)) => ~ReturnedNone(s)

\* a blocking send ended by its timeout
TimedOut(s) ==
    /\ Done(s) /\ call[s].blocking /\ future[s] = NoMsg
    /\ call[s].exc \notin {"AttributeError", "ConnectionClosed", "CancelledError"}

\* C7, the timeout itself: the send returns None and its slot is gone
C7_TimeoutReturnsNoneAndFreesSlot ==
    \A s \in Senders :
        TimedOut(s) => (ReturnedNone(s) /\ response_futures[call[s].uuid] # s)

\* C7: a blocking send that times out returns None and leaves no slot, and a
\* later blocking send with the same id is resolved by its reply
C7_TimeoutThenResend ==
    \A s \in Senders :
        TimedOut(s) =>
            /\ ReturnedNone(s)
            /\ response_futures[call[s].uuid] # s
            /\ \A t \in Senders :
                  (s \in call[t].after /\ call[t].uuid = call[s].uuid /\ call[t].blocking
                   /\ Done(t) /\ ~Cancelled(t) /\ seen[t] # NoMsg)
                      => (call[t].kind = "return" /\ call[t].ret = seen[t])

\* C8: send_msg on a client that never connected raises RuntimeError, sends
\* nothing and registers no slot
C8_NotConnectedError ==
    websocket = "None" =>
        \A s \in Senders :
            Done(s) => /\ call[s].kind = "raise" /\ call[s].exc = "RuntimeError"
                       /\ c_sent[s] = 0
                       /\ \A i \in Ids : response_futures[i] # s

\* C9: Server.send_msg with a path that is no key of the registry sends to no
\* connection, leaves the registry as it is, warns and returns
C9_UnknownTarget ==
    [][\A p \in Paths :
          (sendCalls' = sendCalls + 1 /\ sendcall'.path = p /\ p # "-"
           /\ (p \notin Keys \/ connections[p] = 0))
              => /\ sendcall'.pc = "done" /\ sendcall'.kind = "return"
                 /\ sendcall'.warned
                 /\ sendcall'.targets = <<>>
                 /\ connections' = connections]_vars

C9_Witness ==
    /\ sendcall.pc = "done" /\ sendcall.warned /\ sendcall.path = "a"
    /\ connections["b"] # 0

\* C10: when a broadcast ends, the send to every connection that was
\* registered when it was called has been made and has returned or raised
C10_BroadcastCompletes ==
    (sendcall.pc = "done" /\ sendcall.path = "-")
        => \A i \in DOMAIN sendcall.st : Finished(sendcall.st[i])

\* the connections whose handler runs: started, and not yet left
Running(c) == conn[c].pc \in {"iter", "dispatch"}

\* C11: while a connection that connected under a key held by an open
\* connection stays open, the registry maps the key to it, whatever the order
\* in which the two connections close
C11_LastConnectedWins ==
    \A c \in Conns :
        (conn[c].prev # 0 /\ conn[c].ws = "open" /\ Running(c))
            => connections[conn[c].path] = c

\* C11, the second part: the transport a key maps to is open
C11_KeyMapsToOpenTransport ==
    \A k \in Keys : connections[k] # 0 => conn[connections[k]].ws = "open"

\* the connections that have connected have pairwise distinct keys
DistinctKeys ==
    \A b, c \in Conns :
        (b # c /\ conn[b].pc # "none" /\ conn[c].pc # "none") => conn[b].path # conn[c].path

\* C12: for connections with pairwise distinct keys, the keys of the registry
\* are the keys of the connections whose handler runs, each mapped to its
\* connection: the entry is there from the handler's start to its end, however
\* the connection closed and whether or not a handler raised
C12_RegistryIsRunningHandlers ==
    DistinctKeys =>
        /\ {k \in Keys : connections[k] # 0} = {conn[c].path : c \in {b \in Conns : Running(b)}}
        /\ \A c \in Conns : Running(c) => connections[conn[c].path] = c

\* a connection whose handler raised failed and left the registry, while
\* another connection, under another key, is still served
C12_Witness ==
    /\ DistinctKeys
    /\ \E c, b \in Conns :
          /\ conn[c].pc = "exited"
          /\ conn[c].exc = "ConnectionClosedError"
          /\ \E n \in DOMAIN disp[c] : disp[c][n].exc = "HandlerError"
          /\ connections[conn[c].path] = 0
          /\ Running(b)
          /\ connections[conn[b].path] = b

\* the client's read loop takes a frame that fails to decode
ClientDropsFrame ==
    /\ reader = "running"
    /\ c_inbox # <<>>
    /\ c_inbox' = Tail(c_inbox)
    /\ from_json(Head(c_inbox)).exc # ""

\* the read loop of connection c takes a frame that fails to decode
ServerDropsFrame(c) ==
    /\ conn[c].pc = "iter"
    /\ conn[c].inbox # <<>>
    /\ conn'[c].inbox = Tail(conn[c].inbox)
    /\ from_json(Head(conn[c].inbox)).exc # ""

\* C13: a frame that fails to decode is logged and dropped: no handler is
\* invoked and no wait resolved, the connection stays open and registered, and
\* the read loop goes on with whatever it had, so that the next frame is
\* processed as it would have been; for the client and for the server
C13_DecodeFailureDropped ==
    [][/\ ClientDropsFrame =>
            /\ c_last'.exc = from_json(Head(c_inbox)).exc
            /\ c_last'.invoked = <<>>
            /\ ~c_last'.lookup
            /\ reader' = "running"
            /\ UNCHANGED <<websocket, future, response_futures, call, registed_callbacks>>
       /\ \A c \in Conns : ServerDropsFrame(c) =>
            /\ conn'[c].exc = from_json(Head(conn[c].inbox)).exc
            /\ conn'[c].pc = "iter"
            /\ conn'[c].ws = conn[c].ws
            /\ UNCHANGED <<disp, connections, srv_callbacks>>]_vars

\* on both sides the first frame was dropped and the second one decoded and
\* processed: on the client while a blocking send waits, on the server by a
\* dispatch whose handlers all ran
C13_Witness ==
    /\ c_last.n = 2 /\ c_last.dropped = {1} /\ c_last.decoded
    /\ websocket = "open" /\ reader = "running"
    /\ call[1].pc = "waiting"
    /\ \E c \in Conns :
          /\ conn[c].dropped = {1}
          /\ connections[conn[c].path] = c
          /\ \E n \in DOMAIN disp[c] :
                /\ disp[c][n].frame = 2
                /\ disp[c][n].over
                /\ disp[c][n].handlers # <<>>
                /\ \A i \in DOMAIN disp[c][n].st : disp[c][n].st[i] = "done"

\* a blocking send that has been made and has not ended
Pending(s) == call[s].pc \in {"sent", "waiting"}

\* C14: two messages made without a uuid have different ids, so two blocking
\* sends of such messages that are pending together have different ids
C14_DefaultIdsDiffer ==
    \A s, t \in Senders :
        (s # t /\ Pending(s) /\ Pending(t)) => call[s].uuid # call[t].uuid

\* the read loop processes, in this step, a frame that decodes to a message
\* with the given uuid
ClientReceives(id) ==
    /\ c_last'.n = c_last.n + 1
    /\ c_last'.decoded
    /\ c_last'.msg.uuid = id

\* C15: from the moment the frame of a blocking send is handed to the
\* transport, a message with its id that the read loop processes finds the
\* send's slot in the table
C15_SlotExistsOnceSent ==
    [][\A s \in Senders :
          (call[s].blocking /\ Pending(s) /\ ClientReceives(call[s].uuid))
              => response_futures[call[s].uuid] = s]_vars

\* C16: the read loop goes on while a blocking send waits, and a message
\* with the send's id that it processes during the wait resolves the wait
C16_ReplyDuringWaitResolves ==
    \A s \in Senders : seen[s] # NoMsg => future[s] = seen[s]

\* C17: the slot of a waiting blocking send stays its own: a second blocking
\* send with the same id does not replace it
C17_FirstSlotLeftIntact ==
    \A s \in Senders :
        call[s].pc = "waiting" => response_futures[call[s].uuid] = s

\* the blocking send s ends in this step by its timeout
TimesOut(s) ==
    /\ call[s].pc = "waiting"
    /\ future[s] = NoMsg
    /\ call'[s].pc = "done"
    /\ call'[s].kind = "return"

\* C18: the timeout of one blocking send leaves the slot and the future of
\* every other waiting send, and the read loop, as they were
C18_TimeoutRemovesOwnSlotOnly ==
    [][\A s \in Senders : TimesOut(s) =>
          /\ reader' = reader
          /\ \A t \in Senders \ {s} :
                call[t].pc = "waiting" =>
                    /\ response_futures'[call[t].uuid] = response_futures[call[t].uuid]
                    /\ future'[t] = future[t]]_vars

\* C18, for waiting sends whose ids differ from the id of the one timing out
C18_TimeoutRemovesOwnSlotOnlyDistinctIds ==
    [][\A s \in Senders : TimesOut(s) =>
          /\ reader' = reader
          /\ \A t \in Senders \ {s} :
                (call[t].pc = "waiting" /\ call[t].uuid # call[s].uuid) =>
                    /\ response_futures'[call[t].uuid] = response_futures[call[t].uuid]
                    /\ future'[t] = future[t]]_vars

\* the read loop processes a message with the id of a blocking send, after
\* the first message with that id, which it received while the send waited
LaterSameId ==
    \E s \in Senders : seen[s] # NoMsg /\ ClientReceives(call[s].uuid)

\* C19: a later message carrying the id of a blocking send changes no future
\* that has its result, leaves the read loop running and is dispatched to
\* the handlers registered for its code and for "ALL"
C19_LaterMessageOnlyDispatched ==
    [][LaterSameId =>
          /\ \A s \in Senders : future[s] # NoMsg => future'[s] = future[s]
          /\ reader' = "running"
          /\ c_last'.invoked = MatchedHandlers(registed_callbacks, c_last'.msg.code)]_vars

\* C20: every entry of _response_futures is the future of a blocking send
\* that is waiting under that id, and the table is empty when no send waits
C20_NoSlotLeak ==
    /\ \A i \in Ids :
          response_futures[i] # 0 =>
              /\ call[response_futures[i]].pc = "waiting"
              /\ call[response_futures[i]].blocking
              /\ call[response_futures[i]].uuid = i
    /\ (\A s \in Senders : call[s].pc # "waiting") => \A i \in Ids : response_futures[i] = 0

\* two blocking sends with the same id have waited; one ended by its
\* timeout, the other by cancellation, and the table is empty
C20_Witness ==
    /\ \A i \in Ids : response_futures[i] = 0
    /\ \E s, t \in Senders :
          /\ call[s].blocking /\ call[t].blocking
          /\ call[s].uuid = call[t].uuid
          /\ t \notin call[s].after /\ s \notin call[t].after
          /\ TimedOut(s) /\ ReturnedNone(s)
          /\ Cancelled(t)

============================================================================
